---------------------------- MODULE Spec2Model ----------------------------
(***************************************************************************)
(* Model of imagevault64_api.py: the bounded streaming downloader          *)
(* download_image_bytes (candidate fallback, HEAD probe, streamed GET with *)
(* a byte ceiling) and the two-stage resize of the /render handler.        *)
(*                                                                         *)
(* Strings are sequences of atoms.  A URL is a sequence over Tok, where    *)
(* the scheme prefixes "http://" and "https://" are single atoms, so       *)
(* url.startswith("http://") is "the first atom is http://".  HTTP header  *)
(* values are sequences of one-character strings; None is the value None.  *)
(***************************************************************************)
EXTENDS Integers, Sequences, FiniteSets, TLC

(* ------------------------------ bounds -------------------------------- *)
MaxUrlLen == 3          \* longest input URL, in atoms
MaxBytesBound == 1      \* max_bytes argument ranges over 1..MaxBytesBound
MaxChunks == 2          \* chunks the server yields per response, at most

(* ------------------------- program constants -------------------------- *)
DEFAULT_RESIZE_FACTOR == 7
DEFAULT_MAX_PIXELS == 40000000
MAX_DOWNLOAD_BYTES == 80 * 1024 * 1024
STREAM_CHUNK == 16 * 1024
RETRIES_TOTAL == 3

\* None where the code has an optional string (a sequence of atoms)
None == <<"None">>

(* ------------------------------ strings ------------------------------- *)
\* the pieces locators are made of: the two prefixes try_alternate_scheme
\* looks for, the scheme http without "//" (as in "http:a"), a legal character,
\* the query delimiter and a character no URI may contain
Tok == {"http://", "https://", "http:", "a", "?", " "}

UrlSet == UNION {[1..n -> Tok] : n \in 0..MaxUrlLen}

StartsWith(s, p) ==
    /\ Len(s) >= Len(p)
    /\ \A i \in 1..Len(p) : s[i] = p[i]

\* str.lower() on the characters used in header values
LowerChar(c) ==
    CASE c = "I" -> "i" [] c = "M" -> "m" [] c = "A" -> "a"
      [] c = "G" -> "g" [] c = "E" -> "e" [] OTHER -> c

Lower(s) == [i \in 1..Len(s) |-> LowerChar(s[i])]

ImagePrefix == <<"i", "m", "a", "g", "e", "/">>

\* Python truthiness of an optional string: None and "" are falsy
Truthy(s) == s # None /\ s # <<>>

is_image_content_type(ct) ==
    IF ~Truthy(ct) THEN FALSE ELSE StartsWith(Lower(ct), ImagePrefix)

try_alternate_scheme(u) ==
    IF StartsWith(u, <<"http://">>) THEN <<"https://">> \o Tail(u)
    ELSE IF StartsWith(u, <<"https://">>) THEN <<"http://">> \o Tail(u)
    ELSE u

HasQuery(u) == \E i \in 1..Len(u) : u[i] = "?"

\* mutant of BeforeQuery: the locator is cut at its last "?", not its first
BeforeQueryLast(u) ==
    LET last == CHOOSE i \in 1..Len(u) :
                    u[i] = "?" /\ \A j \in (i + 1)..Len(u) : u[j] # "?"
    IN SubSeq(u, 1, last - 1)

\* url.split("?", 1)[0]
BeforeQuery(u) ==
    LET first == CHOOSE i \in 1..Len(u) :
                     u[i] = "?" /\ \A j \in 1..(i - 1) : u[j] # "?"
    IN SubSeq(u, 1, first - 1)

\* mutant of candidate_list: the alternate is appended without comparing it
\* with the original
candidate_listAlwaysSwaps(u) ==
    LET c2 == <<u, try_alternate_scheme(u)>>
    IN IF HasQuery(u) THEN Append(c2, BeforeQuery(u)) ELSE c2

\* lines 94-102
candidate_list(u) ==
    LET alt == try_alternate_scheme(u)
        c1 == <<u>>
        c2 == IF alt # u THEN Append(c1, alt) ELSE c1
    IN IF HasQuery(u) THEN Append(c2, BeforeQuery(u)) ELSE c2

\* requests can put a request on the wire only for http(s)://host...;
\* anything else raises (MissingSchema, InvalidSchema, InvalidURL) first.
\* A character that is illegal in a URI is percent-encoded by requests, not
\* refused.
Routable(u) ==
    /\ Len(u) >= 2
    /\ u[1] \in {"http://", "https://"}
    /\ u[2] = "a"

(* int(str): digits only in the modelled alphabet *)
DigitVal(c) ==
    CASE c = "0" -> 0 [] c = "1" -> 1 [] c = "2" -> 2 [] c = "3" -> 3
      [] c = "4" -> 4 [] c = "5" -> 5 [] c = "6" -> 6 [] c = "7" -> 7
      [] c = "8" -> 8 [] c = "9" -> 9 [] OTHER -> -1

RECURSIVE ParseDigits(_, _)
ParseDigits(s, acc) ==
    IF s = <<>> THEN acc ELSE ParseDigits(Tail(s), 10 * acc + DigitVal(Head(s)))

\* int() raised ValueError (the modelled values have no sign, so -1 is free)
ValueError == 0 - 1

ParseInt(s) ==
    IF s = <<>> \/ \E i \in 1..Len(s) : DigitVal(s[i]) < 0
    THEN ValueError
    ELSE ParseDigits(s, 0)

(* --------------------------- server inputs ---------------------------- *)
ImageType == <<"I", "m", "a", "g", "e", "/", "p">>
TextType == <<"t", "e", "x", "t", "/", "h">>

ContentTypes == {None, <<>>, ImageType, TextType}

\* what a server may answer to HEAD: status, Content-Length, Content-Type
HeadResponses ==
    {[status |-> 200, cl |-> None, ct |-> None],
     [status |-> 200, cl |-> <<"1">>, ct |-> ImageType],
     [status |-> 200, cl |-> <<"9">>, ct |-> ImageType],
     [status |-> 200, cl |-> <<"x">>, ct |-> ImageType],
     [status |-> 200, cl |-> None, ct |-> TextType],
     [status |-> 200, cl |-> None, ct |-> <<>>],
     [status |-> 405, cl |-> None, ct |-> TextType],
     [status |-> 405, cl |-> None, ct |-> None]}

\* what a server may answer to GET, and the request failing without an answer
GetStatuses == {200, 404, 429, 500, 501, 503}
ConnectionError == 0

\* line 38
STATUS_FORCELIST == {429, 500, 502, 503, 504}

\* mutant of Retryable: no status is retried, only a failed connection
RetryableConnectionOnly(a) == a = ConnectionError

\* lines 36-41: what the adapter answers with another attempt
Retryable(a) == a = ConnectionError \/ a \in STATUS_FORCELIST

\* the words raise_for_status puts in its HTTPError
StatusText(st) ==
    CASE st = 404 -> "404 Client Error"
      [] st = 429 -> "429 Client Error"
      [] st = 500 -> "500 Server Error"
      [] st = 501 -> "501 Server Error"
      [] st = 503 -> "503 Server Error"
      [] OTHER -> "HTTP error status"
ChunkLens == {0, 1, STREAM_CHUNK}

(* ------------------------------- state -------------------------------- *)
VARIABLES
    \* download_image_bytes: arguments and locals
    url, max_bytes, candidate_urls, ci, tried_urls, tried_exceptions,
    head, content_length, content_type, buf, total,
    \* the Content-Type header of the response being streamed (resp.headers)
    resp_ct,
    \* the session's retry counter for the request in flight, the chunks the
    \* server has yielded on the open response, the control point, the outcome
    attempts, nchunks, dpc, result,
    \* history: every session.head / session.get call, in order
    events

dvars == <<url, max_bytes, candidate_urls, ci, tried_urls, tried_exceptions,
           head, content_length, content_type, buf, total, resp_ct,
           attempts, nchunks, dpc, result, events>>

VARIABLES
    \* the request body and the handler's locals
    data, resize_factor, max_pixels, img_bytes,
    \* img: the size of the PIL image object img is bound to
    img, orig_w, orig_h, target_w, target_h, new_w, new_h,
    \* raw_bytes: len(raw_bytes); the control point; the HTTP response
    raw_bytes, rpc, response,
    \* history: the size of img when stage 1 was over
    stage1

rvars == <<data, resize_factor, max_pixels, img_bytes, img, orig_w, orig_h,
           target_w, target_h, new_w, new_h, raw_bytes, rpc, response,
           stage1>>

vars == <<dvars, rvars>>

candidate == candidate_urls[ci]

\* safe_head's None
NoResponse == [status |-> 0, cl |-> None, ct |-> None]

\* no objection: the check lets the candidate through
Pass == "pass"

NoResult == [kind |-> "none"]

\* bytes held by the BytesIO buffer: buf is the sequence of chunks written
RECURSIVE BufLen(_)
BufLen(b) == IF b = <<>> THEN 0 ELSE Head(b).len + BufLen(Tail(b))

\* tried_exceptions.append(...); continue
Fail(src, why, prefix) ==
    /\ tried_exceptions' = Append(tried_exceptions,
           [at |-> ci, src |-> src, why |-> why, url |-> prefix])
    /\ dpc' = "loop"

InitDownload ==
    /\ url \in UrlSet
    /\ max_bytes \in 1..MaxBytesBound
    /\ candidate_urls = <<>>
    /\ ci = 0
    /\ tried_urls = <<>>
    /\ tried_exceptions = <<>>
    /\ head = NoResponse
    /\ content_length = None
    /\ content_type = None
    /\ buf = <<>>
    /\ total = 0
    /\ resp_ct = None
    /\ attempts = 0
    /\ nchunks = 0
    /\ dpc = "entry"
    /\ result = NoResult
    /\ events = <<>>

\* lines 88-102
BuildCandidates ==
    /\ dpc = "entry"
    /\ candidate_urls' = candidate_list(url)
    /\ dpc' = "loop"
    /\ UNCHANGED rvars
    /\ UNCHANGED <<url, max_bytes, resp_ct, ci, tried_urls, tried_exceptions,
                   head, content_length, content_type, buf, total, attempts,
                   nchunks, result, events>>

\* lines 104-106: the for loop takes the next candidate
NextCandidate ==
    /\ dpc = "loop"
    /\ ci < Len(candidate_urls)
    /\ ci' = ci + 1
    /\ tried_urls' = Append(tried_urls, candidate_urls[ci + 1])
    /\ dpc' = "head"
    /\ UNCHANGED rvars
    /\ UNCHANGED <<url, max_bytes, resp_ct, candidate_urls, tried_exceptions,
                   head, content_length, content_type, buf, total, attempts,
                   nchunks, result, events>>

\* the call ends (return or raise): its locals go with the frame
DropFrame ==
    /\ candidate_urls' = <<>>
    /\ ci' = 0
    /\ tried_urls' = <<>>
    /\ tried_exceptions' = <<>>
    /\ head' = NoResponse
    /\ content_length' = None
    /\ content_type' = None
    /\ buf' = <<>>
    /\ total' = 0
    /\ resp_ct' = None
    /\ attempts' = 0
    /\ nchunks' = 0
    /\ dpc' = "done"

\* line 159: the loop is exhausted
RaiseAllFailed ==
    /\ dpc = "loop"
    /\ ci = Len(candidate_urls)
    /\ result' = [kind |-> "RuntimeError", tried |-> tried_urls,
                  errors |-> tried_exceptions]
    /\ DropFrame
    /\ UNCHANGED rvars
    /\ UNCHANGED <<url, max_bytes, events>>

\* line 108 / 64: session.head is called
HeadSend ==
    /\ dpc = "head"
    /\ events' = Append(events, [op |-> "HEAD", cand |-> ci])
    /\ attempts' = 0
    /\ dpc' = "head_wait"
    /\ UNCHANGED rvars
    /\ UNCHANGED <<url, max_bytes, resp_ct, candidate_urls, ci, tried_urls,
                   tried_exceptions, head, content_length, content_type, buf,
                   total, nchunks, result>>

\* lines 36-41: the adapter retries a transient failure (connection error,
\* 429, 5xx) of the request in flight, RETRIES_TOTAL times at most
HeadRetry ==
    /\ dpc = "head_wait"
    /\ Routable(candidate)
    /\ \E a \in GetStatuses \cup {ConnectionError} : Retryable(a)
    /\ attempts < RETRIES_TOTAL
    /\ attempts' = attempts + 1
    /\ UNCHANGED rvars
    /\ UNCHANGED <<url, max_bytes, resp_ct, candidate_urls, ci, tried_urls,
                   tried_exceptions, head, content_length, content_type, buf,
                   total, nchunks, dpc, result, events>>

\* lines 66-68: session.head raised (bad URL, transport error, timeout,
\* retries exhausted); safe_head returns None
HeadRaises ==
    /\ dpc = "head_wait"
    /\ head' = NoResponse
    /\ attempts' = 0
    /\ dpc' = "headcheck"
    /\ UNCHANGED rvars
    /\ UNCHANGED <<url, max_bytes, resp_ct, candidate_urls, ci, tried_urls,
                   tried_exceptions, content_length, content_type, buf, total,
                   nchunks, result, events>>

\* lines 64-65: session.head returned a response; its status is not looked at
HeadResponds ==
    /\ dpc = "head_wait"
    /\ Routable(candidate)
    /\ head' \in HeadResponses
    /\ attempts' = 0
    /\ dpc' = "headcheck"
    /\ UNCHANGED rvars
    /\ UNCHANGED <<url, max_bytes, resp_ct, candidate_urls, ci, tried_urls,
                   tried_exceptions, content_length, content_type, buf, total,
                   nchunks, result, events>>

\* mutant of HeadLengthVerdict: the declared length is parsed but never
\* compared with the limit
HeadLengthVerdictNoLimit(h, limit) ==
    IF h = NoResponse \/ ~Truthy(h.cl) THEN Pass
    ELSE IF ParseInt(h.cl) = ValueError THEN "invalid literal for int()"
    ELSE Pass

\* lines 115-124: the reason the declared length rejects the candidate, or Pass
HeadLengthVerdict(h, limit) ==
    IF h = NoResponse \/ ~Truthy(h.cl) THEN Pass
    ELSE IF ParseInt(h.cl) = ValueError THEN "invalid literal for int()"
    ELSE IF ParseInt(h.cl) > limit THEN "Remote content-length exceeds max allowed"
    ELSE Pass

\* mutant of HeadTypeVerdict: an empty Content-Type counts as a declared type
HeadTypeVerdictPresent(h) ==
    IF h # NoResponse /\ h.ct # None /\ ~is_image_content_type(h.ct)
    THEN "non-image content-type"
    ELSE Pass

\* lines 126-129
HeadTypeVerdict(h) ==
    IF h # NoResponse /\ Truthy(h.ct) /\ ~is_image_content_type(h.ct)
    THEN "non-image content-type"
    ELSE Pass

\* mutant of HeadCheck: a candidate skipped for its declared type leaves no
\* reason behind
HeadCheckSilentSkip ==
    /\ dpc = "headcheck"
    /\ content_length' = IF head # NoResponse THEN head.cl ELSE None
    /\ content_type' = IF head # NoResponse THEN head.ct ELSE None
    /\ IF HeadLengthVerdict(head, max_bytes) # Pass
       THEN Fail("HEAD", HeadLengthVerdict(head, max_bytes), None)
       ELSE IF HeadTypeVerdict(head) # Pass
       THEN /\ dpc' = "loop"
            /\ UNCHANGED tried_exceptions
       ELSE /\ dpc' = "get"
            /\ UNCHANGED tried_exceptions
    /\ UNCHANGED rvars
    /\ UNCHANGED <<url, max_bytes, resp_ct, candidate_urls, ci, tried_urls,
                   head, buf, total, attempts, nchunks, result, events>>

\* lines 109-129
HeadCheck ==
    /\ dpc = "headcheck"
    /\ content_length' = IF head # NoResponse THEN head.cl ELSE None
    /\ content_type' = IF head # NoResponse THEN head.ct ELSE None
    /\ IF HeadLengthVerdict(head, max_bytes) # Pass
       THEN Fail("HEAD", HeadLengthVerdict(head, max_bytes), None)
       ELSE IF HeadTypeVerdict(head) # Pass
       THEN Fail("HEAD", HeadTypeVerdict(head), None)
       ELSE /\ dpc' = "get"
            /\ UNCHANGED tried_exceptions
    /\ UNCHANGED rvars
    /\ UNCHANGED <<url, max_bytes, resp_ct, candidate_urls, ci, tried_urls,
                   head, buf, total, attempts, nchunks, result, events>>

\* line 133: session.get is called
GetSend ==
    /\ dpc = "get"
    /\ events' = Append(events, [op |-> "GET", cand |-> ci])
    /\ attempts' = 0
    /\ dpc' = "get_wait"
    /\ UNCHANGED rvars
    /\ UNCHANGED <<url, max_bytes, resp_ct, candidate_urls, ci, tried_urls,
                   tried_exceptions, head, content_length, content_type, buf,
                   total, nchunks, result>>

\* lines 36-41
GetRetry ==
    /\ dpc = "get_wait"
    /\ Routable(candidate)
    /\ \E a \in GetStatuses \cup {ConnectionError} : Retryable(a)
    /\ attempts < RETRIES_TOTAL
    /\ attempts' = attempts + 1
    /\ UNCHANGED rvars
    /\ UNCHANGED <<url, max_bytes, resp_ct, candidate_urls, ci, tried_urls,
                   tried_exceptions, head, content_length, content_type, buf,
                   total, nchunks, dpc, result, events>>

\* lines 36-41, 133, 152-156: the request failed once more with the retries
\* used up; session.get raises
GetExhausted ==
    /\ dpc = "get_wait"
    /\ Routable(candidate)
    /\ \E a \in GetStatuses \cup {ConnectionError} : Retryable(a)
    /\ attempts = RETRIES_TOTAL
    /\ Fail("GET", "Max retries exceeded", candidate)
    /\ attempts' = 0
    /\ UNCHANGED rvars
    /\ UNCHANGED <<url, max_bytes, resp_ct, candidate_urls, ci, tried_urls,
                   head, content_length, content_type, buf, total, nchunks,
                   result, events>>

\* lines 133, 152-156: session.get raised for a reason that is not retried
\* (a URL requests cannot use, among others)
GetRaises ==
    /\ dpc = "get_wait"
    /\ Fail("GET", "request failed", candidate)
    /\ attempts' = 0
    /\ UNCHANGED rvars
    /\ UNCHANGED <<url, max_bytes, resp_ct, candidate_urls, ci, tried_urls,
                   head, content_length, content_type, buf, total, nchunks,
                   result, events>>

\* mutant of ResponseVerdict: only the status is looked at
ResponseVerdictStatusOnly(status, hdr, probed) ==
    IF status >= 400 THEN StatusText(status) ELSE Pass

\* lines 134-138: the reason the response is refused before streaming, or Pass;
\* hdr is the response's own Content-Type header, None when it has none
ResponseVerdict(status, hdr, probed) ==
    LET ct == IF hdr # None THEN hdr ELSE probed
    IN IF status >= 400 THEN StatusText(status)
       ELSE IF Truthy(ct) /\ ~is_image_content_type(ct)
       THEN "Server returned non-image Content-Type"
       ELSE Pass

\* mutant of GetResponds: one buffer serves all candidates, it is not
\* created anew for the response
GetRespondsKeepsBuffer ==
    /\ dpc = "get_wait"
    /\ Routable(candidate)
    /\ \E st \in {a \in GetStatuses : ~Retryable(a)}, hdr \in ContentTypes :
           IF ResponseVerdict(st, hdr, content_type) # Pass
           THEN /\ Fail("GET", ResponseVerdict(st, hdr, content_type), candidate)
                /\ UNCHANGED resp_ct
           ELSE /\ dpc' = "stream"
                /\ resp_ct' = hdr
                /\ UNCHANGED tried_exceptions
    /\ attempts' = 0
    /\ UNCHANGED rvars
    /\ UNCHANGED <<url, max_bytes, candidate_urls, ci, tried_urls, head,
                   content_length, content_type, buf, total, nchunks, result,
                   events>>

\* lines 133-141, 152-156: a response arrives; status and type are checked and
\* the buffer is created
GetResponds ==
    /\ dpc = "get_wait"
    /\ Routable(candidate)
    /\ \E st \in {a \in GetStatuses : ~Retryable(a)}, hdr \in ContentTypes :
           IF ResponseVerdict(st, hdr, content_type) # Pass
           THEN /\ Fail("GET", ResponseVerdict(st, hdr, content_type), candidate)
                /\ UNCHANGED <<buf, total, resp_ct>>
           ELSE /\ buf' = <<>>
                /\ total' = 0
                /\ resp_ct' = hdr
                /\ dpc' = "stream"
                /\ UNCHANGED tried_exceptions
    /\ attempts' = 0
    /\ UNCHANGED rvars
    /\ UNCHANGED <<url, max_bytes, candidate_urls, ci, tried_urls, head,
                   content_length, content_type, nchunks, result, events>>

\* lines 142-145: iter_content yields the next chunk, of at most STREAM_CHUNK
\* bytes; an empty chunk is skipped
ReadChunk ==
    /\ dpc = "stream"
    /\ nchunks < MaxChunks
    /\ nchunks' = nchunks + 1
    /\ \E n \in ChunkLens :
           IF n > 0
           THEN /\ buf' = Append(buf, [from |-> ci, len |-> n])
                /\ total' = total + n
                /\ dpc' = "check"
           ELSE UNCHANGED <<buf, total, dpc>>
    /\ UNCHANGED rvars
    /\ UNCHANGED <<url, max_bytes, resp_ct, candidate_urls, ci, tried_urls,
                   tried_exceptions, head, content_length, content_type,
                   attempts, result, events>>

\* mutant of CheckTotal: the ceiling is compared with the chunk just read,
\* not with the running total
CheckTotalPerChunk ==
    /\ dpc = "check"
    /\ IF Head(SubSeq(buf, Len(buf), Len(buf))).len > max_bytes
       THEN /\ Fail("GET", "Download exceeded max bytes", candidate)
            /\ nchunks' = 0
            /\ resp_ct' = None
       ELSE /\ dpc' = "stream"
            /\ UNCHANGED <<tried_exceptions, nchunks, resp_ct>>
    /\ UNCHANGED rvars
    /\ UNCHANGED <<url, max_bytes, candidate_urls, ci, tried_urls, head,
                   content_length, content_type, buf, total, attempts, result,
                   events>>

\* lines 146-147, 152-156
CheckTotal ==
    /\ dpc = "check"
    /\ IF total > max_bytes
       THEN /\ Fail("GET", "Download exceeded max bytes", candidate)
            /\ nchunks' = 0
            /\ resp_ct' = None
       ELSE /\ dpc' = "stream"
            /\ UNCHANGED <<tried_exceptions, nchunks, resp_ct>>
    /\ UNCHANGED rvars
    /\ UNCHANGED <<url, max_bytes, candidate_urls, ci, tried_urls, head,
                   content_length, content_type, buf, total, attempts, result,
                   events>>

\* mutant of StreamRaises: a broken stream is answered by fetching the same
\* candidate again
StreamRaisesRefetch ==
    /\ dpc = "stream"
    /\ dpc' = "get"
    /\ nchunks' = 0
    /\ resp_ct' = None
    /\ UNCHANGED rvars
    /\ UNCHANGED <<url, max_bytes, candidate_urls, ci, tried_urls,
                   tried_exceptions, head, content_length, content_type, buf,
                   total, attempts, result, events>>

\* lines 142, 152-156: the connection breaks or times out mid-stream
StreamRaises ==
    /\ dpc = "stream"
    /\ Fail("GET", "stream failed", candidate)
    /\ nchunks' = 0
    /\ resp_ct' = None
    /\ UNCHANGED rvars
    /\ UNCHANGED <<url, max_bytes, candidate_urls, ci, tried_urls, head,
                   content_length, content_type, buf, total, attempts, result,
                   events>>

\* mutant of ReturnData: the data is kept but the loop goes on to the next
\* candidate
ReturnDataContinues ==
    /\ dpc = "stream"
    /\ result' = [kind |-> "bytes", data |-> buf]
    /\ dpc' = "loop"
    /\ nchunks' = 0
    /\ resp_ct' = None
    /\ tried_exceptions' = Append(tried_exceptions,
           [at |-> ci, src |-> "GET", why |-> "none", url |-> candidate])
    /\ UNCHANGED rvars
    /\ UNCHANGED <<url, max_bytes, candidate_urls, ci, tried_urls, head,
                   content_length, content_type, buf, total, attempts, events>>

\* lines 148-151: the stream ends; the buffer is returned
ReturnData ==
    /\ dpc = "stream"
    /\ result' = [kind |-> "bytes", data |-> buf]
    /\ DropFrame
    /\ UNCHANGED rvars
    /\ UNCHANGED <<url, max_bytes, events>>

NextDownload ==
    \/ BuildCandidates
    \/ NextCandidate
    \/ RaiseAllFailed
    \/ HeadSend
    \/ HeadRetry
    \/ HeadRaises
    \/ HeadResponds
    \/ HeadCheck
    \/ GetSend
    \/ GetRetry
    \/ GetExhausted
    \/ GetRaises
    \/ GetResponds
    \/ ReadChunk
    \/ CheckTotal
    \/ StreamRaises
    \/ ReturnData


(* ============================== /render =============================== *)
\* bounds of the request and of the decoded image
MaxDim == 7             \* decoded width and height range over 1..MaxDim
MaxFactor == 3          \* supplied resize_factor ranges up to MaxFactor
MaxPixelsBound == 6     \* supplied max_pixels ranges up to MaxPixelsBound


Max(a, b) == IF a >= b THEN a ELSE b
Abs(a) == IF a >= 0 THEN a ELSE 0 - a

\* a JSON value supplied for a numeric option
Absent == [kind |-> "absent", val |-> 0]
Junk == [kind |-> "junk", val |-> 0]
Num(n) == [kind |-> "int", val |-> n]

\* mutant of Sanitize: the value is converted but not compared with 1
SanitizeNoFloor(raw, default) ==
    IF raw.kind = "absent" THEN default
    ELSE IF raw.kind = "junk" THEN default
    ELSE raw.val

\* lines 178-195: data.get(name, default), int(), the < 1 test
Sanitize(raw, default) ==
    IF raw.kind = "absent" THEN default
    ELSE IF raw.kind = "junk" THEN default
    ELSE IF raw.val < 1 THEN default
    ELSE raw.val

Requests ==
    [json_ok : BOOLEAN, has_url : BOOLEAN,
     resize_factor : {Absent, Junk} \cup {Num(n) : n \in 0..MaxFactor},
     max_pixels : {Absent, Junk} \cup {Num(n) : n \in 0..MaxPixelsBound}]

NoImage == <<0, 0>>

(***************************************************************************)
(* Image.thumbnail((x, y)) on a W x H image (Pillow >= 7): the image is    *)
(* left alone when the box already covers it; otherwise one side of the    *)
(* box is kept and the other is recomputed from the aspect ratio W/H, as   *)
(* max(min(floor(v), ceil(v), key = distance of the ratio from W/H), 1).   *)
(* The distances are compared exactly here; the code compares them as      *)
(* floats, and when v lies exactly half way the float comparison can go    *)
(* either way, so both sizes are possible outcomes.                        *)
(***************************************************************************)
Nearest(fl, ce, kfl, kce) ==
    IF kfl < kce THEN {fl} ELSE IF kce < kfl THEN {ce} ELSE {fl, ce}

Ceil(n, d) == IF n % d = 0 THEN n \div d ELSE (n \div d) + 1

\* round_aspect(y * aspect, key = |aspect - n / y|)
thumbnail_width(W, H, y) ==
    LET fl == (y * W) \div H
        ce == Ceil(y * W, H)
    IN {Max(n, 1) : n \in Nearest(fl, ce, Abs(W * y - fl * H), Abs(W * y - ce * H))}

\* round_aspect(x / aspect, key = 0 if n == 0 else |aspect - x / n|)
thumbnail_height(W, H, x) ==
    LET fl == (x * H) \div W
        ce == Ceil(x * H, W)
    IN IF fl = 0 THEN {1}
       ELSE {Max(n, 1) : n \in Nearest(fl, ce, Abs(W * fl - x * H) * ce,
                                             Abs(W * ce - x * H) * fl)}

\* mutant of thumbnail: the side to keep is chosen the wrong way round
thumbnailWrongSide(W, H, x, y) ==
    IF x >= W /\ y >= H THEN {<<W, H>>}
    ELSE IF x * H < W * y
    THEN {<<w, y>> : w \in thumbnail_width(W, H, y)}
    ELSE {<<x, h>> : h \in thumbnail_height(W, H, x)}

thumbnail(W, H, x, y) ==
    IF x >= W /\ y >= H THEN {<<W, H>>}
    ELSE IF x * H >= W * y
    THEN {<<w, y>> : w \in thumbnail_width(W, H, y)}
    ELSE {<<x, h>> : h \in thumbnail_height(W, H, x)}

\* mutant of Target: the division without the floor of 1
TargetUnclamped(orig, factor) == orig \div factor

\* lines 232-233, 240-241
Target(orig, factor) == Max(1, orig \div factor)

(***************************************************************************)
(* int(d * math.sqrt(max_pixels / total_pixels)): the largest k with       *)
(* k * k * total_pixels <= d * d * max_pixels.  When the product is an     *)
(* exact integer the float product can fall just short of it (17 x 17 with *)
(* max_pixels 9 gives 2, not 3), so k - 1 is a possible outcome there.     *)
(***************************************************************************)
ScaledDown(d, limit, pixels) ==
    LET k == CHOOSE n \in 0..d :
                 /\ n * n * pixels <= d * d * limit
                 /\ (n + 1) * (n + 1) * pixels > d * d * limit
    IN IF k >= 1 /\ k * k * pixels = d * d * limit THEN {k - 1, k} ELSE {k}

\* lines 248-249
FinalDim(d, limit, pixels) == {Max(1, k) : k \in ScaledDown(d, limit, pixels)}

RenderIdle ==
    /\ data = [json_ok |-> FALSE, has_url |-> FALSE, resize_factor |-> Absent,
               max_pixels |-> Absent]
    /\ resize_factor = 0
    /\ max_pixels = 0
    /\ img_bytes = 0
    /\ img = NoImage
    /\ orig_w = 0
    /\ orig_h = 0
    /\ target_w = 0
    /\ target_h = 0
    /\ new_w = 0
    /\ new_h = 0
    /\ raw_bytes = 0
    /\ rpc = "idle"
    /\ response = NoResult
    /\ stage1 = NoImage

InitRender ==
    /\ data \in Requests
    /\ resize_factor = 0
    /\ max_pixels = 0
    /\ img_bytes = 0
    /\ img = NoImage
    /\ orig_w = 0
    /\ orig_h = 0
    /\ target_w = 0
    /\ target_h = 0
    /\ new_w = 0
    /\ new_h = 0
    /\ raw_bytes = 0
    /\ rpc = "json"
    /\ response = NoResult
    /\ stage1 = NoImage

\* return jsonify(...), status
Respond(r) ==
    /\ response' = r
    /\ rpc' = "done"

\* an exception leaves render: Flask answers with its own 500 page, not with
\* a jsonify body
Escapes(e) ==
    /\ response' = [status |-> 500, html |-> e]
    /\ rpc' = "done"

\* lines 168-175
GetJson ==
    /\ rpc = "json"
    /\ IF ~data.json_ok THEN Respond([status |-> 400, error |-> "Bad JSON body"])
       ELSE IF ~data.has_url
       THEN Respond([status |-> 400, error |-> "Missing 'url' field"])
       ELSE /\ rpc' = "args"
            /\ UNCHANGED response
    /\ UNCHANGED dvars
    /\ UNCHANGED <<data, resize_factor, max_pixels, img_bytes, img, orig_w,
                   orig_h, target_w, target_h, new_w, new_h, raw_bytes,
                   stage1>>

\* lines 177-197
ReadArgs ==
    /\ rpc = "args"
    /\ resize_factor' = Sanitize(data.resize_factor, DEFAULT_RESIZE_FACTOR)
    /\ max_pixels' = Sanitize(data.max_pixels, DEFAULT_MAX_PIXELS)
    /\ rpc' = "download"
    /\ UNCHANGED dvars
    /\ UNCHANGED <<data, img_bytes, img, orig_w, orig_h, target_w, target_h,
                   new_w, new_h, raw_bytes, response, stage1>>

\* lines 200-202: download_image_bytes returned the bytes of one candidate
DownloadReturns ==
    /\ rpc = "download"
    /\ img_bytes' = 1
    /\ rpc' = "open"
    /\ UNCHANGED dvars
    /\ UNCHANGED <<data, resize_factor, max_pixels, img, orig_w, orig_h,
                   target_w, target_h, new_w, new_h, raw_bytes, response,
                   stage1>>

\* lines 203-205: download_image_bytes raised
DownloadRaises ==
    /\ rpc = "download"
    /\ Respond([status |-> 400, error |-> "Failed to download image"])
    /\ UNCHANGED dvars
    /\ UNCHANGED <<data, resize_factor, max_pixels, img_bytes, img, orig_w,
                   orig_h, target_w, target_h, new_w, new_h, raw_bytes,
                   stage1>>

\* lines 207-227: the bytes decode to an image, which is brought to RGB
OpenImage ==
    /\ rpc = "open"
    /\ \E w \in 1..MaxDim, h \in 1..MaxDim :
           /\ img' = <<w, h>>
           /\ orig_w' = w
           /\ orig_h' = h
    /\ rpc' = "stage1"
    /\ UNCHANGED dvars
    /\ UNCHANGED <<data, resize_factor, max_pixels, img_bytes, target_w,
                   target_h, new_w, new_h, raw_bytes, response,
                   stage1>>

\* lines 213-220: neither the parser nor Image.open can read the bytes
OpenFails ==
    /\ rpc = "open"
    /\ Respond([status |-> 400, error |-> "Failed to open image"])
    /\ UNCHANGED dvars
    /\ UNCHANGED <<data, resize_factor, max_pixels, img_bytes, img, orig_w,
                   orig_h, target_w, target_h, new_w, new_h, raw_bytes,
                   stage1>>

\* lines 223-224: img.convert("RGB") raised (the fallback Image.open is lazy,
\* the pixel data is first decoded here); no try encloses the call
ConvertRaises ==
    /\ rpc = "open"
    /\ Escapes("convert")
    /\ UNCHANGED dvars
    /\ UNCHANGED <<data, resize_factor, max_pixels, img_bytes, img, orig_w,
                   orig_h, target_w, target_h, new_w, new_h, raw_bytes,
                   stage1>>

\* lines 230-237: img.thumbnail resizes img in place
Thumbnail ==
    /\ rpc = "stage1"
    /\ target_w' = Target(orig_w, resize_factor)
    /\ target_h' = Target(orig_h, resize_factor)
    /\ img' \in thumbnail(img[1], img[2], target_w', target_h')
    /\ new_w' = img'[1]
    /\ new_h' = img'[2]
    /\ rpc' = "stage2"
    /\ stage1' = img'
    /\ UNCHANGED dvars
    /\ UNCHANGED <<data, resize_factor, max_pixels, img_bytes, orig_w, orig_h,
                   raw_bytes, response>>

\* mutant of ThumbnailRaises: the result of img.resize is dropped, img stays
\* bound to the unresized image
ThumbnailRaisesKeepsImage ==
    /\ rpc = "stage1"
    /\ target_w' = Target(orig_w, resize_factor)
    /\ target_h' = Target(orig_h, resize_factor)
    /\ new_w' = Target(orig_w, resize_factor)
    /\ new_h' = Target(orig_h, resize_factor)
    /\ img' = img
    /\ rpc' = "stage2"
    /\ stage1' = <<new_w', new_h'>>
    /\ UNCHANGED dvars
    /\ UNCHANGED <<data, resize_factor, max_pixels, img_bytes, orig_w, orig_h,
                   raw_bytes, response>>

\* lines 230-242: img.thumbnail raised; img.resize to the target instead
ThumbnailRaises ==
    /\ rpc = "stage1"
    /\ target_w' = Target(orig_w, resize_factor)
    /\ target_h' = Target(orig_h, resize_factor)
    /\ new_w' = Target(orig_w, resize_factor)
    /\ new_h' = Target(orig_h, resize_factor)
    /\ img' = <<new_w', new_h'>>
    /\ rpc' = "stage2"
    /\ stage1' = img'
    /\ UNCHANGED dvars
    /\ UNCHANGED <<data, resize_factor, max_pixels, img_bytes, orig_w, orig_h,
                   raw_bytes, response>>

\* lines 238-242: img.thumbnail raised and the img.resize of the except
\* branch raised as well
FallbackResizeRaises ==
    /\ rpc = "stage1"
    /\ target_w' = Target(orig_w, resize_factor)
    /\ target_h' = Target(orig_h, resize_factor)
    /\ new_w' = Target(orig_w, resize_factor)
    /\ new_h' = Target(orig_h, resize_factor)
    /\ Escapes("resize")
    /\ UNCHANGED dvars
    /\ UNCHANGED <<data, resize_factor, max_pixels, img_bytes, img, orig_w,
                   orig_h, raw_bytes, stage1>>

\* lines 245-251: the second img.resize raised; no try encloses the call
EnforceMaxPixelsRaises ==
    /\ rpc = "stage2"
    /\ new_w * new_h > max_pixels
    /\ Escapes("resize")
    /\ UNCHANGED dvars
    /\ UNCHANGED <<data, resize_factor, max_pixels, img_bytes, img, orig_w,
                   orig_h, target_w, target_h, new_w, new_h, raw_bytes,
                   stage1>>

\* lines 244-255
EnforceMaxPixels ==
    /\ rpc = "stage2"
    /\ LET total_pixels == new_w * new_h
       IN IF total_pixels > max_pixels
          THEN \E final_w \in FinalDim(new_w, max_pixels, total_pixels),
                  final_h \in FinalDim(new_h, max_pixels, total_pixels) :
                   /\ img' = <<final_w, final_h>>
                   /\ new_w' = final_w
                   /\ new_h' = final_h
          ELSE UNCHANGED <<img, new_w, new_h>>
    /\ rpc' = "encode"
    /\ UNCHANGED dvars
    /\ UNCHANGED <<data, resize_factor, max_pixels, img_bytes, orig_w, orig_h,
                   target_w, target_h, raw_bytes, response,
                   stage1>>

\* lines 257-258: img.tobytes() of an RGB image, 3 bytes a pixel
ToBytes ==
    /\ rpc = "encode"
    /\ raw_bytes' = img[1] * img[2] * 3
    /\ rpc' = "respond"
    /\ UNCHANGED dvars
    /\ UNCHANGED <<data, resize_factor, max_pixels, img_bytes, img, orig_w,
                   orig_h, target_w, target_h, new_w, new_h, response,
                   stage1>>

\* lines 259-261
ToBytesRaises ==
    /\ rpc = "encode"
    /\ Respond([status |-> 500, error |-> "Failed to get raw bytes"])
    /\ UNCHANGED dvars
    /\ UNCHANGED <<data, resize_factor, max_pixels, img_bytes, img, orig_w,
                   orig_h, target_w, target_h, new_w, new_h, raw_bytes,
                   stage1>>

\* lines 263-274: base64 of raw_bytes; nbytes is the length of the decoded
\* base64_data
Success ==
    /\ rpc = "respond"
    /\ Respond([status |-> 200, width |-> new_w, height |-> new_h,
                nbytes |-> raw_bytes])
    /\ UNCHANGED dvars
    /\ UNCHANGED <<data, resize_factor, max_pixels, img_bytes, img, orig_w,
                   orig_h, target_w, target_h, new_w, new_h, raw_bytes,
                   stage1>>

\* lines 266-268
EncodeRaises ==
    /\ rpc = "respond"
    /\ Respond([status |-> 500, error |-> "Base64 encode failed"])
    /\ UNCHANGED dvars
    /\ UNCHANGED <<data, resize_factor, max_pixels, img_bytes, img, orig_w,
                   orig_h, target_w, target_h, new_w, new_h, raw_bytes,
                   stage1>>

NextRender ==
    \/ GetJson
    \/ ReadArgs
    \/ DownloadReturns
    \/ DownloadRaises
    \/ OpenImage
    \/ OpenFails
    \/ ConvertRaises
    \/ Thumbnail
    \/ ThumbnailRaises
    \/ FallbackResizeRaises
    \/ EnforceMaxPixels
    \/ EnforceMaxPixelsRaises
    \/ ToBytes
    \/ ToBytesRaises
    \/ Success
    \/ EncodeRaises

\* the downloader is not running
DownloadIdle ==
    /\ url = <<>>
    /\ max_bytes = MAX_DOWNLOAD_BYTES
    /\ candidate_urls = <<>>
    /\ ci = 0
    /\ tried_urls = <<>>
    /\ tried_exceptions = <<>>
    /\ head = NoResponse
    /\ content_length = None
    /\ content_type = None
    /\ buf = <<>>
    /\ total = 0
    /\ resp_ct = None
    /\ attempts = 0
    /\ nchunks = 0
    /\ dpc = "idle"
    /\ result = NoResult
    /\ events = <<>>

(* --------------------------- specifications --------------------------- *)
\* download_image_bytes(url, max_bytes) on its own
Init == InitDownload /\ RenderIdle
Next == NextDownload
Spec == Init /\ [][Next]_vars

\* the /render handler from the request to the response
InitR == InitRender /\ DownloadIdle
SpecRender == InitR /\ [][NextRender]_vars

(* ============================= properties ============================= *)
Last(q) == q[Len(q)]

\* the response of the current candidate is being streamed
Streaming == dpc \in {"stream", "check"}

\* the current candidate has just failed with this reason
FailedWith(src, why) ==
    /\ dpc = "loop"
    /\ ci >= 1
    /\ Len(tried_exceptions) = ci
    /\ Last(tried_exceptions).at = ci
    /\ Last(tried_exceptions).src = src
    /\ Last(tried_exceptions).why = why

Requested(op, c) == \E k \in 1..Len(events) : events[k] = [op |-> op, cand |-> c]

(***************************************************************************)
(* C1: in download_image_bytes, after every chunk read from the stream,    *)
(* the bytes held in the buffer never exceed max_bytes.                    *)
(* The code writes the chunk into the buffer before it compares the        *)
(* running total with max_bytes, so this is violated at the chunk that     *)
(* crosses the ceiling.                                                    *)
(***************************************************************************)
C1_BufferWithinCeiling == Streaming => BufLen(buf) <= max_bytes

(***************************************************************************)
(* C2: a streaming transfer whose running total first exceeds max_bytes is *)
(* aborted at that chunk: a further chunk is read only while the total is  *)
(* within max_bytes, the step after the crossing chunk records the         *)
(* exceeded-size reason for the candidate and leaves the loop body without *)
(* touching the buffer, and the buffer never holds more than max_bytes     *)
(* plus STREAM_CHUNK bytes.                                                *)
(***************************************************************************)
C2_Bounded ==
    Streaming =>
        /\ total = BufLen(buf)
        /\ BufLen(buf) <= max_bytes + STREAM_CHUNK
        /\ dpc = "stream" => total <= max_bytes

C2_AbortStep ==
    (dpc = "check" /\ total > max_bytes) =>
        /\ dpc' = "loop"
        /\ buf' = buf
        /\ total' = total
        /\ result' = NoResult
        /\ tried_exceptions' = Append(tried_exceptions,
               [at |-> ci, src |-> "GET", why |-> "Download exceeded max bytes",
                url |-> candidate])

C2_AbortedAtCeiling == [](C2_Bounded) /\ [][C2_AbortStep]_vars

\* the ceiling was crossed by a full chunk on top of a full buffer, and the
\* candidate failed for it
C2_Witness ==
    /\ FailedWith("GET", "Download exceeded max bytes")
    /\ Len(buf) >= 2
    /\ BufLen(buf) = max_bytes + STREAM_CHUNK

(***************************************************************************)
(* C3: the final output size has at most max_pixels pixels, whatever the   *)
(* source size, resize_factor and max_pixels.                              *)
(* Stage 2 floors each side at 1, so a thin image (one side scaled below   *)
(* 1) keeps more pixels than the budget: the code violates this.           *)
(***************************************************************************)
Encoding == rpc \in {"encode", "respond"}

C3_WithinPixelBudget ==
    /\ Encoding => new_w * new_h <= max_pixels
    /\ (rpc = "done" /\ response.status = 200) =>
           response.width * response.height <= max_pixels

(***************************************************************************)
(* C4: when the HEAD response of a candidate declares a numeric            *)
(* Content-Length above max_bytes, no GET is issued for that candidate,    *)
(* exactly one reason is recorded for it (by the probe), and the loop goes *)
(* on to the next candidate with no result decided.                        *)
(***************************************************************************)
AfterProbe == ci >= 1 /\ dpc \in {"get", "get_wait", "stream", "check", "loop"}

DeclaredTooLong(h, limit) ==
    /\ h # NoResponse
    /\ ParseInt(h.cl) # ValueError
    /\ ParseInt(h.cl) > limit

C4_ProbeShortCircuit ==
    (AfterProbe /\ DeclaredTooLong(head, max_bytes)) =>
        /\ dpc = "loop"
        /\ result = NoResult
        /\ ~Requested("GET", ci)
        /\ Len(tried_exceptions) = ci
        /\ Last(tried_exceptions).at = ci
        /\ Last(tried_exceptions).src = "HEAD"

\* rejected by the declared length, with another candidate still to come
C4_Witness ==
    /\ AfterProbe
    /\ DeclaredTooLong(head, max_bytes)
    /\ FailedWith("HEAD", "Remote content-length exceeds max allowed")
    /\ ci < Len(candidate_urls)

(***************************************************************************)
(* C5: candidates are attempted one at a time in list order, each with its *)
(* HEAD before its GET and at most one of each; a request for a candidate  *)
(* is issued only when every earlier candidate has a recorded failure and  *)
(* no result has been decided, so nothing is requested after a success.    *)
(***************************************************************************)
C5_InOrder ==
    /\ events # <<>> => events[1] = [op |-> "HEAD", cand |-> 1]
    /\ \A k \in 1..(Len(events) - 1) :
           \/ /\ events[k + 1].cand = events[k].cand
              /\ events[k].op = "HEAD"
              /\ events[k + 1].op = "GET"
           \/ /\ events[k + 1].cand = events[k].cand + 1
              /\ events[k + 1].op = "HEAD"
    /\ (dpc = "done" /\ result.kind = "bytes") => Last(events).op = "GET"

C5_RequestStep ==
    events' # events =>
        /\ Len(events') = Len(events) + 1
        /\ result = NoResult
        /\ Last(events').cand = ci
        /\ Len(tried_exceptions) = ci - 1
        /\ \A k \in 1..(ci - 1) : tried_exceptions[k].at = k
        /\ Last(events').cand <= Len(candidate_urls)

C5_Sequential == [](C5_InOrder) /\ [][C5_RequestStep]_vars

\* the third candidate succeeded after the first was fetched and failed and
\* the second was rejected by its probe
C5_Witness ==
    /\ dpc = "done"
    /\ result.kind = "bytes"
    /\ result.data # <<>>
    /\ events = <<[op |-> "HEAD", cand |-> 1], [op |-> "GET", cand |-> 1],
                  [op |-> "HEAD", cand |-> 2], [op |-> "HEAD", cand |-> 3],
                  [op |-> "GET", cand |-> 3]>>

(***************************************************************************)
(* C6: when every candidate fails, the terminal error lists exactly the    *)
(* candidates, in generation order, and one reason per candidate in the    *)
(* same order, whether the probe rejected it or the fetch failed.  While   *)
(* the loop runs, the reasons lag the tried URLs by at most the candidate  *)
(* in progress.                                                            *)
(***************************************************************************)
ReasonsMatch(urls, reasons) ==
    /\ Len(reasons) = Len(urls)
    /\ \A k \in 1..Len(reasons) :
           /\ reasons[k].at = k
           /\ reasons[k].src = "GET" => reasons[k].url = urls[k]
           /\ reasons[k].src = "HEAD" => reasons[k].url = None

C6_CompleteDiagnostics ==
    /\ (dpc = "done" /\ result.kind = "RuntimeError") =>
           /\ result.tried = candidate_list(url)
           /\ ReasonsMatch(result.tried, result.errors)
    /\ dpc = "loop" => ReasonsMatch(tried_urls, tried_exceptions)
    /\ dpc \notin {"entry", "loop", "done"} =>
           /\ Len(tried_urls) = ci
           /\ ReasonsMatch(SubSeq(tried_urls, 1, ci - 1), tried_exceptions)

\* three candidates, rejected by the probe and failed in the fetch
C6_Witness ==
    /\ dpc = "done"
    /\ result.kind = "RuntimeError"
    /\ Len(result.tried) = 3
    /\ result.errors[1].src = "HEAD"
    /\ result.errors[2].src = "GET"
    /\ result.errors[3].src = "HEAD"

(***************************************************************************)
(* C7: a probe that ends in a transport error, a timeout or an             *)
(* unsupported-method response (405) counts as unavailable: it records no  *)
(* failure for the candidate and the GET is still issued for it.           *)
(* safe_head returns any response it gets, whatever its status, so the     *)
(* headers of a 405 error page are judged like those of the image and can  *)
(* reject the candidate: the code violates this.                           *)
(***************************************************************************)
ProbeUnavailable(h) == h = NoResponse \/ h.status = 405

C7_UnavailableProbeIsHarmless ==
    (AfterProbe /\ ProbeUnavailable(head)) =>
        /\ \A k \in 1..Len(tried_exceptions) :
               tried_exceptions[k].at = ci => tried_exceptions[k].src = "GET"
        /\ dpc = "loop" => Requested("GET", ci)

(***************************************************************************)
(* C8: finalW <= stage1W <= origW and finalH <= stage1H <= origH, and      *)
(* neither the stage-1 size nor the final size has a zero dimension.       *)
(***************************************************************************)
AfterStage1 == rpc \in {"stage2", "encode", "respond"}

C8_Monotone ==
    /\ AfterStage1 =>
           /\ 1 <= stage1[1] /\ stage1[1] <= orig_w
           /\ 1 <= stage1[2] /\ stage1[2] <= orig_h
           /\ 1 <= new_w /\ new_w <= stage1[1]
           /\ 1 <= new_h /\ new_h <= stage1[2]
           /\ 1 <= img[1] /\ 1 <= img[2]
    /\ (rpc = "done" /\ response.status = 200) =>
           /\ 1 <= response.width /\ response.width <= stage1[1]
           /\ 1 <= response.height /\ response.height <= stage1[2]

\* both stages shrank the image, stage 2 down to one pixel a side
C8_Witness ==
    /\ rpc = "done"
    /\ response.status = 200
    /\ response.width = 1
    /\ response.height < stage1[2]
    /\ stage1[1] < orig_w
    /\ stage1[2] < orig_h
    /\ stage1[1] > 1

(***************************************************************************)
(* C9 as stated: the size after stage 1 is exactly                         *)
(* (max(1, origW div resize_factor), max(1, origH div resize_factor)).     *)
(* That is the box handed to img.thumbnail, which keeps the aspect ratio   *)
(* and so shrinks one side further: violated (3 wide and 7 high, factor 2: *)
(* box 1x3, result 1x2).                                                   *)
(***************************************************************************)
C9_Stage1IsFloorDivision ==
    AfterStage1 =>
        stage1 = <<Max(1, orig_w \div resize_factor),
                   Max(1, orig_h \div resize_factor)>>

(***************************************************************************)
(* C9 amended: the size after stage 1 fits the box                         *)
(* (max(1, origW div resize_factor), max(1, origH div resize_factor)),     *)
(* has no zero side and meets the box on at least one side; the other side *)
(* may be shorter, because img.thumbnail keeps the aspect ratio.           *)
(***************************************************************************)
C9_Stage1FitsBox ==
    AfterStage1 =>
        /\ target_w = Max(1, orig_w \div resize_factor)
        /\ target_h = Max(1, orig_h \div resize_factor)
        /\ 1 <= stage1[1] /\ stage1[1] <= target_w
        /\ 1 <= stage1[2] /\ stage1[2] <= target_h
        /\ stage1[1] = target_w \/ stage1[2] = target_h

\* the thumbnail came out smaller than the box, on a side longer than 1
C9_Witness ==
    /\ AfterStage1
    /\ stage1[1] = target_w
    /\ stage1[2] < target_h
    /\ stage1[2] > 1

(***************************************************************************)
(* C10: on every success response the reported width and height describe   *)
(* the returned buffer: its length is width * height * 3.                  *)
(***************************************************************************)
C10_BufferMatchesSize ==
    /\ rpc = "respond" => raw_bytes = new_w * new_h * 3
    /\ (rpc = "done" /\ response.status = 200) =>
           response.nbytes = response.width * response.height * 3

\* a success whose size differs from the source in both stages
C10_Witness ==
    /\ rpc = "done"
    /\ response.status = 200
    /\ stage1 # <<orig_w, orig_h>>
    /\ <<response.width, response.height>> # stage1
    /\ response.nbytes > 3

(***************************************************************************)
(* C11: every run of render ends in one structured response: the success   *)
(* body, a 400 error body for missing or malformed input and for a failed  *)
(* fetch or decode, or a 500 error body for a failed serialization; no     *)
(* stage lets an exception leave the handler.                              *)
(***************************************************************************)
InputErrors ==
    {"Bad JSON body", "Missing 'url' field", "Failed to download image",
     "Failed to open image"}

SerializationErrors == {"Failed to get raw bytes", "Base64 encode failed"}

Structured(r) ==
    \/ /\ DOMAIN r = {"status", "error"}
       /\ \/ r.status = 400 /\ r.error \in InputErrors
          \/ r.status = 500 /\ r.error \in SerializationErrors
    \/ /\ DOMAIN r = {"status", "width", "height", "nbytes"}
       /\ r.status = 200

C11_NothingEscapes == rpc = "done" => Structured(response)

\* the candidate list of the running call has been built
Built == Len(candidate_urls) > 0

\* the locator is an absolute URI: a scheme first, and no character a URI
\* may not contain
WellFormed(u) ==
    /\ Len(u) >= 1
    /\ u[1] \in {"http://", "https://", "http:"}
    /\ \A i \in 1..Len(u) : u[i] # " "

(***************************************************************************)
(* C12: a locator that is not a well-formed absolute URI is rejected       *)
(* before any network operation: none of its candidates is sent a HEAD or  *)
(* a GET over the network, and the call ends in the error that render      *)
(* answers with 400.                                                       *)
(***************************************************************************)
C12_MalformedNeverRequested ==
    ~WellFormed(url) =>
        /\ Built => \A k \in 1..Len(events) :
                        ~Routable(candidate_urls[events[k].cand])
        /\ dpc = "done" => result.kind = "RuntimeError"

\* the scheme of a locator: what stands before its first ":"
SchemeOf(u) ==
    IF u = <<>> THEN "none"
    ELSE CASE u[1] \in {"http://", "http:"} -> "http"
           [] u[1] = "https://" -> "https"
           [] OTHER -> "none"

\* v is u with http and https exchanged and everything else kept
SchemeSwapped(u, v) ==
    /\ {SchemeOf(u), SchemeOf(v)} = {"http", "https"}
    /\ Tail(v) = Tail(u)

\* s is u cut just before its first "?"
CutBeforeQuery(u, s) ==
    /\ Len(s) < Len(u)
    /\ SubSeq(u, 1, Len(s)) = s
    /\ u[Len(s) + 1] = "?"
    /\ \A i \in 1..Len(s) : s[i] # "?"

\* the list is the original, then the swapped locator iff swaps, then the
\* locator without its query iff it has one
CandidateShape(swaps) ==
    Built =>
        /\ candidate_urls[1] = url
        /\ Len(candidate_urls) = 1 + (IF swaps THEN 1 ELSE 0)
                                   + (IF HasQuery(url) THEN 1 ELSE 0)
        /\ Len(candidate_urls) \in 1..3
        /\ swaps => SchemeSwapped(url, candidate_urls[2])
        /\ HasQuery(url) => CutBeforeQuery(url, Last(candidate_urls))

(***************************************************************************)
(* C13 as stated: the candidate list is the original locator, then, iff    *)
(* the scheme of the locator is http or https, the locator with the scheme *)
(* swapped, then, iff the locator contains "?", the locator cut before its *)
(* first "?"; it has 1 to 3 entries and starts with the original.          *)
(***************************************************************************)
C13_SwapByScheme == CandidateShape(SchemeOf(url) \in {"http", "https"})

(***************************************************************************)
(* C13 amended: the same list, where the swapped locator is there iff the  *)
(* locator starts with the literal text "http://" or "https://".           *)
(***************************************************************************)
C13_SwapByPrefix ==
    CandidateShape(url # <<>> /\ Head(url) \in {"http://", "https://"})

\* a locator whose three candidates have all been taken
C13_Witness ==
    /\ Built
    /\ Len(candidate_urls) = 3
    /\ ci = 3
    /\ Len(events) = 6

(***************************************************************************)
(* C19: the entries of the candidate list are pairwise distinct, so no     *)
(* locator is probed twice or fetched twice in one run.                    *)
(***************************************************************************)
C19_NoRepeat ==
    Built =>
        /\ \A i, j \in 1..Len(candidate_urls) :
               i # j => candidate_urls[i] # candidate_urls[j]
        /\ \A j, k \in 1..Len(events) :
               (j # k /\ events[j].op = events[k].op) =>
                   candidate_urls[events[j].cand] # candidate_urls[events[k].cand]

\* three candidates, each probed and fetched
C19_Witness ==
    /\ Built
    /\ Len(candidate_urls) = 3
    /\ Requested("GET", 1) /\ Requested("GET", 2) /\ Requested("GET", 3)
    /\ dpc = "stream"

\* render has read its two options
ArgsRead ==
    \/ rpc \in {"download", "open", "stage1", "stage2", "encode", "respond"}
    \/ rpc = "done" /\ data.json_ok /\ data.has_url

\* value is what the pipeline uses for the supplied option raw
Effective(raw, default, value) ==
    /\ value >= 1
    /\ (raw.kind = "int" /\ raw.val >= 1) => value = raw.val
    /\ (raw.kind # "int" \/ raw.val < 1) => value = default

C14_Options ==
    ArgsRead =>
        /\ Effective(data.resize_factor, DEFAULT_RESIZE_FACTOR, resize_factor)
        /\ Effective(data.max_pixels, DEFAULT_MAX_PIXELS, max_pixels)

\* reading the options never answers the request
C14_NoErrorStep == rpc = "args" => (rpc' = "download" /\ response' = response)

(***************************************************************************)
(* C14: the resize_factor and max_pixels the pipeline works with are       *)
(* integers >= 1: a missing, non-numeric or smaller value is replaced by   *)
(* the default (7 and 40,000,000) without any error response, and a        *)
(* supplied integer >= 1 is used as given.                                 *)
(***************************************************************************)
C14_SanitizedOptions == [](C14_Options) /\ [][C14_NoErrorStep]_vars

\* a success with a supplied factor used as given and a defaulted pixel
\* budget that replaced a supplied 0
C14_Witness ==
    /\ rpc = "done"
    /\ response.status = 200
    /\ data.resize_factor = Num(2)
    /\ resize_factor = 2
    /\ data.max_pixels = Num(0)
    /\ max_pixels = DEFAULT_MAX_PIXELS

\* the current candidate was dropped after its probe, without a GET
Skipped == dpc = "loop" /\ ~Requested("GET", ci)

\* the declared type does not start with "image/", whatever the case
NotImageType(ct) == ~StartsWith(Lower(ct), ImagePrefix)

\* the probe answered and declared a length that reads as a number above
\* the limit, or a type that is not an image type
SkipAsStated(h, limit) ==
    /\ h # NoResponse
    /\ \/ /\ h.cl # None
          /\ ParseInt(h.cl) # ValueError
          /\ ParseInt(h.cl) > limit
       \/ /\ h.ct # None
          /\ NotImageType(h.ct)

\* the same, except that a non-empty length that does not read as a number
\* counts as well, and an empty header value counts as no header
SkipAsCoded(h, limit) ==
    /\ h # NoResponse
    /\ \/ /\ Truthy(h.cl)
          /\ ParseInt(h.cl) = ValueError \/ ParseInt(h.cl) > limit
       \/ /\ Truthy(h.ct)
          /\ NotImageType(h.ct)

(***************************************************************************)
(* C15 as stated: a candidate is skipped after its probe exactly when the  *)
(* declared length is present, numeric and above max_bytes, or the         *)
(* declared type is present and not an image type; in every other case,    *)
(* a non-numeric length included, its GET is made.                         *)
(***************************************************************************)
C15_SkipOnlyNumeric ==
    AfterProbe => (Skipped <=> SkipAsStated(head, max_bytes))

(***************************************************************************)
(* C15 amended: a candidate is skipped after its probe exactly when the    *)
(* declared length is non-empty and either not numeric or above max_bytes, *)
(* or the declared type is non-empty and not an image type; in every other *)
(* case its GET is made.                                                   *)
(***************************************************************************)
C15_SkipAlsoBogus ==
    AfterProbe => (Skipped <=> SkipAsCoded(head, max_bytes))

\* a candidate skipped for a length that is not a number, and a later one
\* fetched after a probe that declared an empty type
C15_Witness ==
    /\ AfterProbe
    /\ ci = 2
    /\ tried_exceptions[1].why = "invalid literal for int()"
    /\ head # NoResponse
    /\ head.ct = <<>>
    /\ Requested("GET", 2)

\* every chunk of b was read from candidate c
AllFrom(b, c) == \A k \in 1..Len(b) : b[k].from = c

C16_OwnBytesOnly ==
    /\ Streaming => AllFrom(buf, ci)
    /\ (dpc = "done" /\ result.kind = "bytes") =>
           /\ AllFrom(result.data, Last(events).cand)
           /\ Last(events).op = "GET"
           /\ BufLen(result.data) <= max_bytes
    /\ (dpc = "done" /\ result.kind # "bytes") =>
           DOMAIN result = {"kind", "tried", "errors"}

\* a response starts with an empty buffer, a chunk goes to the end of the
\* buffer, and what is returned is the buffer
C16_BufferStep ==
    /\ (dpc = "get_wait" /\ dpc' = "stream") => (buf' = <<>> /\ total' = 0)
    /\ (Streaming /\ dpc' \in {"stream", "check"} /\ buf' # buf) =>
           /\ Len(buf') = Len(buf) + 1
           /\ SubSeq(buf', 1, Len(buf)) = buf
           /\ Last(buf').from = ci
    /\ (dpc' = "done" /\ result'.kind = "bytes") => result'.data = buf

(***************************************************************************)
(* C16: the download is all or nothing per candidate: the bytes returned   *)
(* are the chunks of the one successful candidate in the order they were   *)
(* read, at most max_bytes long; the bytes buffered for a candidate that   *)
(* failed are neither returned nor found in the buffer of a later one.     *)
(***************************************************************************)
C16_AllOrNothing == [](C16_OwnBytesOnly) /\ [][C16_BufferStep]_vars

\* the second candidate is streamed after the first one failed with bytes
\* in its buffer
C16_Witness ==
    /\ dpc = "stream"
    /\ ci = 2
    /\ buf # <<>>
    /\ tried_exceptions[1].why = "Download exceeded max bytes"

\* the type that decides about the response being streamed: its own
\* Content-Type header, or what the probe declared when it has none
Governing == IF resp_ct # None THEN resp_ct ELSE content_type

NonImageReason == "Server returned non-image Content-Type"

\* a candidate refused for its type is followed by the next candidate, or
\* by the end of the loop, with no result decided
C17_RefusalGoesOn ==
    FailedWith("GET", NonImageReason) =>
        /\ result = NoResult
        /\ \/ ci' = ci + 1 /\ dpc' = "head"
           \/ ci = Len(candidate_urls) /\ dpc' = "done"
                  /\ result'.kind = "RuntimeError"

(***************************************************************************)
(* C17 as stated: a response is streamed, and so a fetch can succeed, only *)
(* if the governing type is absent or starts with "image/" whatever the    *)
(* case; a candidate refused for its type is followed by the next one.     *)
(***************************************************************************)
C17_AbsentOrImage ==
    /\ [](Streaming => (Governing = None \/ ~NotImageType(Governing)))
    /\ [][C17_RefusalGoesOn]_vars

(***************************************************************************)
(* C17 amended: a response is streamed, and so a fetch can succeed, only   *)
(* if the governing type is absent, empty, or starts with "image/"         *)
(* whatever the case; a candidate refused for its type is followed by the  *)
(* next one.                                                               *)
(***************************************************************************)
C17_FalsyOrImage ==
    /\ [](Streaming => (~Truthy(Governing) \/ ~NotImageType(Governing)))
    /\ [][C17_RefusalGoesOn]_vars

\* the second candidate is streamed under a type written "Image/..." after
\* the first was refused for its type
C17_Witness ==
    /\ dpc = "stream"
    /\ ci = 2
    /\ tried_exceptions[1].why = NonImageReason
    /\ tried_exceptions[1].src = "GET"
    /\ resp_ct = ImageType
    /\ buf # <<>>

\* the request in flight fails for good in this step, with this reason
GetFailsWith(why) ==
    /\ dpc = "get_wait"
    /\ dpc' = "loop"
    /\ Last(tried_exceptions').why = why

\* a retry stays with the request in flight: same candidate, no new call, no
\* reason recorded
C18_RetryStep ==
    attempts' > attempts =>
        /\ attempts' = attempts + 1
        /\ dpc' = dpc /\ dpc \in {"head_wait", "get_wait"}
        /\ ci' = ci
        /\ events' = events
        /\ tried_exceptions' = tried_exceptions

\* every call of session.head or session.get starts with the whole budget
C18_FreshBudgetStep == events' # events => attempts' = 0

\* a GET that runs out of retries costs its candidate one reason and leaves
\* the loop running
C18_ExhaustedStep ==
    GetFailsWith("Max retries exceeded") =>
        /\ attempts = RETRIES_TOTAL
        /\ Len(tried_exceptions') = Len(tried_exceptions) + 1
        /\ ci' = ci
        /\ result' = NoResult

\* a HEAD that fails for good, out of retries or otherwise, records nothing
\* and leaves the candidate to its GET
C18_ProbeGivenUpStep ==
    (dpc = "head_wait" /\ head' = NoResponse /\ dpc' # dpc) =>
        /\ tried_exceptions' = tried_exceptions
        /\ dpc' = "headcheck"
        /\ ci' = ci

\* the statuses of GetStatuses that are server errors, as raise_for_status
\* words them
ServerErrorTexts == {StatusText(st) : st \in {a \in GetStatuses : a >= 500}}

(***************************************************************************)
(* C18 as stated: a connection failure, any 5xx status or a 429 is retried *)
(* on the same candidate, up to RETRIES_TOTAL retries per request, the     *)
(* budget belonging to that request alone; a candidate fails for such a    *)
(* cause only when the budget is used up, with one reason recorded, and    *)
(* the next candidate follows.                                             *)
(***************************************************************************)
C18_Any5xxRetried ==
    /\ [](attempts <= RETRIES_TOTAL)
    /\ [][C18_RetryStep /\ C18_FreshBudgetStep /\ C18_ExhaustedStep]_vars
    /\ [][\A t \in ServerErrorTexts \cup {"429 Client Error"} :
              ~GetFailsWith(t)]_vars

(***************************************************************************)
(* C18 amended: a connection failure or a status 429, 500, 502, 503 or 504 *)
(* is retried on the same candidate, up to RETRIES_TOTAL retries per       *)
(* request, the budget belonging to that request alone; a GET fails for    *)
(* such a cause only when its budget is used up, with one reason recorded, *)
(* and the next candidate follows.  Any other 5xx status fails the GET at  *)
(* once; a HEAD that fails for good records nothing and the GET is made.   *)
(***************************************************************************)
C18_ForcelistRetried ==
    /\ [](attempts <= RETRIES_TOTAL)
    /\ [][C18_RetryStep /\ C18_FreshBudgetStep /\ C18_ExhaustedStep]_vars
    /\ [][C18_ProbeGivenUpStep]_vars
    /\ [][\A st \in GetStatuses \cap STATUS_FORCELIST :
              ~GetFailsWith(StatusText(st))]_vars

\* the GET of the second candidate is on its last retry, after the GET of
\* the first ran out of retries
C18_Witness ==
    /\ dpc = "get_wait"
    /\ ci = 2
    /\ attempts = RETRIES_TOTAL
    /\ tried_exceptions[1].why = "Max retries exceeded"

(***************************************************************************)
(* How many steps a candidate can still take from each control point, at   *)
(* most: a stream of MaxChunks chunks, RETRIES_TOTAL retries of the GET    *)
(* and of the HEAD.                                                        *)
(***************************************************************************)
StepsLeft ==
    LET stream == 2 * (MaxChunks - nchunks) + 2
        get == 2 * MaxChunks + RETRIES_TOTAL + 4
        headcheck == get + 1
    IN CASE dpc = "loop" -> 1
         [] dpc = "stream" -> stream
         [] dpc = "check" -> stream + 1
         [] dpc = "get_wait" -> get - 1 - attempts
         [] dpc = "get" -> get
         [] dpc = "headcheck" -> headcheck
         [] dpc = "head_wait" -> headcheck + 1 + RETRIES_TOTAL - attempts
         [] dpc = "head" -> headcheck + 2 + RETRIES_TOTAL
         [] OTHER -> 0

StepsPerCandidate == 2 * MaxChunks + 2 * RETRIES_TOTAL + 8

\* a bound on the steps the run can still take
Rank ==
    IF dpc = "done" THEN 0
    ELSE IF dpc = "entry" THEN 3 * StepsPerCandidate + 2
    ELSE (Len(candidate_urls) - ci) * StepsPerCandidate + StepsLeft

C20_Shape ==
    /\ Rank >= 0
    /\ dpc = "done" \/ ENABLED Next
    /\ dpc = "done" => result.kind \in {"bytes", "RuntimeError"}
    /\ dpc # "done" => result = NoResult
    /\ Len(candidate_urls) <= 3
    /\ \A j, k \in 1..Len(events) : j # k => events[j] # events[k]
    /\ \A k \in 1..Len(events) :
           events[k].op = "GET" =>
               k > 1 /\ events[k - 1] = [op |-> "HEAD", cand |-> events[k].cand]
    /\ dpc = "stream" => total <= max_bytes

(***************************************************************************)
(* C20: every run of download_image_bytes ends, in returned bytes or in    *)
(* the one aggregated error: there are at most 3 candidates, each is       *)
(* probed at most once and fetched at most once, after its probe; every    *)
(* step brings the end nearer, retries and chunk reads included; the run   *)
(* is never stuck before its end, and no chunk is read once the running    *)
(* total is above max_bytes.                                               *)
(***************************************************************************)
C20_Terminates == [](C20_Shape) /\ [][Rank' < Rank]_vars

\* the aggregated error after three candidates, each probed and fetched
C20_Witness ==
    /\ dpc = "done"
    /\ result.kind = "RuntimeError"
    /\ Len(result.tried) = 3
    /\ Len(events) = 6

=============================================================================
